---------------------------- MODULE Spec2Model ----------------------------
(***************************************************************************)
(* A model of agent_display.py: the recursive JSON normaliser              *)
(* (recursive_json_clean) and the trace renderer                           *)
(* (visualize_agent_response and its helpers).                             *)
(*                                                                         *)
(* Python values are tagged records [t, s, xs, n]:                         *)
(*   "str"  : s is the text, a sequence of one-character strings           *)
(*   "list" : xs is the sequence of items                                  *)
(*   "dict" : xs is a sequence of [k |-> key, v |-> value], keys distinct, *)
(*            in insertion order                                           *)
(*   "int"  : n is a natural number (the scalars of the model)             *)
(*   "none" : None                                                         *)
(* and the fields a tag does not use are empty.                            *)
(* Text is over the alphabet Chars; json.loads is modelled as CPython's    *)
(* json scanner behaves on that alphabet.                                  *)
(***************************************************************************)
EXTENDS Integers, Sequences, FiniteSets, TLC

VARIABLES
    data,       \* recursive_json_clean: the argument of the outermost call
    term,       \* recursive_json_clean: the value under construction; a
                \*   Call(x) node is a call not yet run
    pass,       \* 1: cleaning data; 2: cleaning the first pass's result
    calls,      \* per pass, the recursive_json_clean invocations run so far
    loads,      \* per pass, the json.loads invocations run so far
    out,        \* result of the first pass
    out2,       \* result of the second pass
    cpc,        \* "cleaning" | "done" | "idle"
    response,   \* visualize_agent_response: the response record
    show_raw,   \* visualize_agent_response: the flag
    console,    \* what console.print has been given, in order
    exc,        \* the exception that ended the call, or "none"
    vpc         \* the section about to run: "header" | "input" | "history"
                \*   | "output" | "debug" | "done" | "idle"

cleanVars == <<data, term, pass, calls, loads, out, out2, cpc>>
vizVars   == <<response, show_raw, console, exc, vpc>>
vars      == <<cleanVars, vizVars>>

---------------------------------------------------------------------------
(* Characters *)

QUOTE  == "\""
BSLASH == "\\"
SPACE  == " "
FF     == "\f"

\* The alphabet of the model's text.
Chars == {"[", "]", "{", "}", QUOTE, BSLASH, ",", ":", SPACE, FF, "a", "1"}

\* json.decoder.WHITESPACE is [ \t\n\r]*: of the alphabet, the space.
JsonWs == {SPACE}

\* str.strip() removes every character with str.isspace(): of the alphabet,
\* the space and the form feed.
PyWs == {SPACE, FF}

\* py_scanstring (strict) rejects characters below 0x20 inside a string.
ControlChars == {FF}

---------------------------------------------------------------------------
(* Values *)

Val(t, s, xs, n) == [t |-> t, s |-> s, xs |-> xs, n |-> n]
Str(s)   == Val("str", s, <<>>, 0)
List(xs) == Val("list", <<>>, xs, 0)
Dict(ps) == Val("dict", <<>>, ps, 0)
Num(n)   == Val("int", <<>>, <<>>, n)
None     == Val("none", <<>>, <<>>, 0)

At(s, i) == IF i >= 1 /\ i <= Len(s) THEN s[i] ELSE "EOF"

---------------------------------------------------------------------------
(* json.loads *)

Fail == [ok |-> FALSE, val |-> None, end |-> 0]
Ok(val, end) == [ok |-> TRUE, val |-> val, end |-> end]

RECURSIVE SkipWs(_, _)
SkipWs(s, i) == IF At(s, i) \in JsonWs THEN SkipWs(s, i + 1) ELSE i

\* The escapes py_scanstring accepts, of the alphabet: \" and \\.
RECURSIVE ScanString(_, _, _)
ScanString(s, i, acc) ==
    LET c == At(s, i) IN
    IF c = "EOF" THEN Fail
    ELSE IF c = QUOTE THEN Ok(Str(acc), i + 1)
    ELSE IF c = BSLASH
         THEN IF At(s, i + 1) \in {QUOTE, BSLASH}
              THEN ScanString(s, i + 2, Append(acc, s[i + 1]))
              ELSE Fail
    ELSE IF c \in ControlChars THEN Fail
    ELSE ScanString(s, i + 1, Append(acc, c))

\* NUMBER_RE on the alphabet: a run of the digit 1, read as a decimal integer.
RECURSIVE ScanNumber(_, _, _)
ScanNumber(s, i, n) ==
    IF At(s, i) = "1" THEN ScanNumber(s, i + 1, 10 * n + 1) ELSE Ok(Num(n), i)

\* dict(pairs): a repeated key keeps its first position and its last value.
RECURSIVE DictSet(_, _, _)
DictSet(ps, k, val) ==
    IF ps = <<>> THEN <<[k |-> k, v |-> val]>>
    ELSE IF Head(ps).k = k THEN <<[k |-> k, v |-> val]>> \o Tail(ps)
    ELSE <<Head(ps)>> \o DictSet(Tail(ps), k, val)

RECURSIVE ScanOnce(_, _), ArrayItems(_, _, _), ObjectPairs(_, _, _)

\* JSONArray, entered after "[".
ParseArray(s, i) ==
    LET j == SkipWs(s, i) IN
    IF At(s, j) = "]" THEN Ok(List(<<>>), j + 1) ELSE ArrayItems(s, j, <<>>)

ArrayItems(s, j, acc) ==
    LET r == ScanOnce(s, j) IN
    IF ~r.ok THEN Fail
    ELSE LET k == SkipWs(s, r.end)
             c == At(s, k)
         IN  IF c = "]" THEN Ok(List(Append(acc, r.val)), k + 1)
             ELSE IF c = "," THEN ArrayItems(s, SkipWs(s, k + 1), Append(acc, r.val))
             ELSE Fail

\* JSONObject, entered after "{".
ParseObject(s, i) ==
    LET j == SkipWs(s, i) IN
    IF At(s, j) = "}" THEN Ok(Dict(<<>>), j + 1)
    ELSE IF At(s, j) = QUOTE THEN ObjectPairs(s, j, <<>>)
    ELSE Fail

\* One "key": value pair; j is at the key's opening quote.
ObjectPairs(s, j, acc) ==
    LET key == ScanString(s, j + 1, <<>>) IN
    IF ~key.ok THEN Fail
    ELSE LET c1 == SkipWs(s, key.end) IN
         IF At(s, c1) # ":" THEN Fail
         ELSE LET r == ScanOnce(s, SkipWs(s, c1 + 1)) IN
              IF ~r.ok THEN Fail
              ELSE LET k == SkipWs(s, r.end)
                       c == At(s, k)
                       ps == DictSet(acc, key.val.s, r.val)
                   IN  IF c = "}" THEN Ok(Dict(ps), k + 1)
                       ELSE IF c = ","
                            THEN LET n == SkipWs(s, k + 1) IN
                                 IF At(s, n) = QUOTE THEN ObjectPairs(s, n, ps)
                                 ELSE Fail
                       ELSE Fail

\* scanner.py_make_scanner._scan_once
ScanOnce(s, i) ==
    LET c == At(s, i) IN
    IF c = QUOTE THEN ScanString(s, i + 1, <<>>)
    ELSE IF c = "{" THEN ParseObject(s, i + 1)
    ELSE IF c = "[" THEN ParseArray(s, i + 1)
    ELSE IF c = "1" THEN ScanNumber(s, i, 0)
    ELSE Fail

\* json.loads(s): JSONDecoder.decode, which refuses trailing non-whitespace.
Decode(s, r) == IF r.ok /\ SkipWs(s, r.end) = Len(s) + 1 THEN r ELSE Fail
JsonLoads(s) == Decode(s, ScanOnce(s, SkipWs(s, 1)))

---------------------------------------------------------------------------
(* recursive_json_clean *)

\* str.strip()
RECURSIVE LStrip(_), RStrip(_)
LStrip(s) == IF s # <<>> /\ Head(s) \in PyWs THEN LStrip(Tail(s)) ELSE s
RStrip(s) ==
    IF s # <<>> /\ s[Len(s)] \in PyWs THEN RStrip(SubSeq(s, 1, Len(s) - 1)) ELSE s
strip(s) == RStrip(LStrip(s))

startswith(s, c) == s # <<>> /\ s[1] = c
endswith(s, c)   == s # <<>> /\ s[Len(s)] = c

\* Faulty variant: the array alternative of the test is missing.
LooksLikeJson_ObjectsOnly(stripped) ==
    startswith(stripped, "{") /\ endswith(stripped, "}")

\* Faulty variant: one matching end is enough.
LooksLikeJson_EitherEnd(stripped) ==
    \/ startswith(stripped, "{") \/ endswith(stripped, "}")
    \/ startswith(stripped, "[") \/ endswith(stripped, "]")

\* The test of lines 37-38 on the stripped text.
LooksLikeJson(stripped) ==
    \/ startswith(stripped, "{") /\ endswith(stripped, "}")
    \/ startswith(stripped, "[") /\ endswith(stripped, "]")

\* Faulty variant: the parsed value is returned without the recursive call.
StrBranch_NoRecursion(x) ==
    IF LooksLikeJson(strip(x.s))
    THEN LET r == JsonLoads(x.s) IN
         IF r.ok THEN [again |-> FALSE, v |-> r.val] ELSE [again |-> FALSE, v |-> x]
    ELSE [again |-> FALSE, v |-> x]

\* Faulty variant: a parse failure returns the stripped text.
StrBranch_ReturnsStripped(x) ==
    IF LooksLikeJson(strip(x.s))
    THEN LET r == JsonLoads(x.s) IN
         IF r.ok THEN [again |-> TRUE, v |-> r.val]
         ELSE [again |-> FALSE, v |-> Str(strip(x.s))]
    ELSE [again |-> FALSE, v |-> x]

\* Faulty variant: the recursive call is given the text again, not the parsed value.
StrBranch_ReparsesText(x) ==
    IF LooksLikeJson(strip(x.s))
    THEN LET r == JsonLoads(x.s) IN
         IF r.ok THEN [again |-> TRUE, v |-> x] ELSE [again |-> FALSE, v |-> x]
    ELSE [again |-> FALSE, v |-> x]

\* The string branch (lines 34-44): either the parsed value, handed to a
\* recursive call (again), or the value returned as it is.
Parsed(x, r) ==
    IF r.ok THEN [again |-> TRUE, v |-> r.val] ELSE [again |-> FALSE, v |-> x]
StrBranch(x) ==
    IF LooksLikeJson(strip(x.s)) THEN Parsed(x, JsonLoads(x.s))
    ELSE [again |-> FALSE, v |-> x]

\* The function, as a whole.
RECURSIVE recursive_json_clean(_), CleanItems(_), CleanPairs(_), CleanBranch(_)
recursive_json_clean(x) ==
    IF x.t = "dict" THEN Dict(CleanPairs(x.xs))
    ELSE IF x.t = "list" THEN List(CleanItems(x.xs))
    ELSE IF x.t = "str" THEN CleanBranch(StrBranch(x))
    ELSE x

\* Line 42, or the return of line 44 or 46.
CleanBranch(b) == IF b.again THEN recursive_json_clean(b.v) ELSE b.v

CleanItems(xs) ==
    IF xs = <<>> THEN <<>>
    ELSE <<recursive_json_clean(Head(xs))>> \o CleanItems(Tail(xs))

CleanPairs(ps) ==
    IF ps = <<>> THEN <<>>
    ELSE <<[k |-> Head(ps).k, v |-> recursive_json_clean(Head(ps).v)]>>
         \o CleanPairs(Tail(ps))

(* The same function one invocation at a time.  Call(x) is an invocation  *)
(* not yet run; Python runs the pending invocations depth first, left to   *)
(* right, so the next one to run is the leftmost Call node.                *)
Call(x) == Val("call", <<>>, <<x>>, 0)
Arg(tm) == tm.xs[1]

RECURSIVE CallItems(_), CallPairs(_)
CallItems(xs) ==
    IF xs = <<>> THEN <<>> ELSE <<Call(Head(xs))>> \o CallItems(Tail(xs))
CallPairs(ps) ==
    IF ps = <<>> THEN <<>>
    ELSE <<[k |-> Head(ps).k, v |-> Call(Head(ps).v)]>> \o CallPairs(Tail(ps))

\* Whether running recursive_json_clean(x) calls json.loads itself.
TriesParse(x) == x.t = "str" /\ LooksLikeJson(strip(x.s))

\* Line 42 as a call still to run, or the return of line 44 or 46.
CallBranch(b) == IF b.again THEN Call(b.v) ELSE b.v

\* One invocation's own work on its argument x (lines 28-46).
RunCall(x) ==
    IF x.t = "dict" THEN Dict(CallPairs(x.xs))
    ELSE IF x.t = "list" THEN List(CallItems(x.xs))
    ELSE IF x.t = "str" THEN CallBranch(StrBranch(x))
    ELSE x

RECURSIVE HasCall(_), AnyCall(_)
HasCall(tm) ==
    IF tm.t = "call" THEN TRUE
    ELSE IF tm.t \in {"list", "dict"} THEN AnyCall(tm.xs)
    ELSE FALSE
\* Over list items (values) and dict pairs (records with a value field v).
AnyCall(xs) ==
    IF xs = <<>> THEN FALSE
    ELSE LET h == Head(xs) IN
         (IF "k" \in DOMAIN h THEN HasCall(h.v) ELSE HasCall(h)) \/ AnyCall(Tail(xs))

\* The argument of the leftmost pending invocation.
RECURSIVE NextArg(_), NextArgIn(_)
NextArg(tm) ==
    IF tm.t = "call" THEN Arg(tm) ELSE NextArgIn(tm.xs)
NextArgIn(xs) ==
    LET h == Head(xs)
        x == IF "k" \in DOMAIN h THEN h.v ELSE h
    IN  IF HasCall(x) THEN NextArg(x) ELSE NextArgIn(Tail(xs))

\* The term after the leftmost pending invocation has run.
RECURSIVE RunNext(_), RunNextIn(_)
RunNext(tm) ==
    IF tm.t = "call" THEN RunCall(Arg(tm))
    ELSE [tm EXCEPT !.xs = RunNextIn(tm.xs)]
RunNextIn(xs) ==
    LET h == Head(xs) IN
    IF "k" \in DOMAIN h
    THEN IF HasCall(h.v) THEN <<[k |-> h.k, v |-> RunNext(h.v)]>> \o Tail(xs)
         ELSE <<h>> \o RunNextIn(Tail(xs))
    ELSE IF HasCall(h) THEN <<RunNext(h)>> \o Tail(xs)
         ELSE <<h>> \o RunNextIn(Tail(xs))

---------------------------------------------------------------------------
(* Inputs of recursive_json_clean *)

MaxLen   == 4      \* every text over Chars up to this length is an input
MaxDepth == 2      \* nesting depth of the structured inputs

RECURSIVE Texts(_)
Texts(n) ==
    IF n = 0 THEN {<<>>}
    ELSE LET prev == Texts(n - 1) IN
         prev \cup {Append(s, c) : s \in {p \in prev : Len(p) = n - 1}, c \in Chars}

\* json.dumps of a value (default separators), the way a tool encodes a
\* structure into a text field.
RECURSIVE Dumps(_), DumpsItems(_), DumpsPairs(_), Escape(_)
Escape(s) ==
    IF s = <<>> THEN <<>>
    ELSE (IF Head(s) \in {QUOTE, BSLASH} THEN <<BSLASH, Head(s)>> ELSE <<Head(s)>>)
         \o Escape(Tail(s))
RECURSIVE Digits(_)
Digits(n) == IF n < 10 THEN <<"1">> ELSE Append(Digits(n \div 10), "1")
Dumps(x) ==
    IF x.t = "str" THEN <<QUOTE>> \o Escape(x.s) \o <<QUOTE>>
    ELSE IF x.t = "list" THEN <<"[">> \o DumpsItems(x.xs) \o <<"]">>
    ELSE IF x.t = "dict" THEN <<"{">> \o DumpsPairs(x.xs) \o <<"}">>
    ELSE Digits(x.n)
DumpsItems(xs) ==
    IF xs = <<>> THEN <<>>
    ELSE Dumps(Head(xs)) \o (IF Len(xs) > 1 THEN <<",", SPACE>> ELSE <<>>)
         \o DumpsItems(Tail(xs))
DumpsPairs(ps) ==
    IF ps = <<>> THEN <<>>
    ELSE <<QUOTE>> \o Escape(Head(ps).k) \o <<QUOTE, ":", SPACE>> \o Dumps(Head(ps).v)
         \o (IF Len(ps) > 1 THEN <<",", SPACE>> ELSE <<>>) \o DumpsPairs(Tail(ps))

\* The leaves of the structured inputs.
Leaves ==
    { Str(<<"a">>), Str(<<"[", "a", "]">>), Str(<<"{", "]">>),
      Str(<<SPACE, "[", "]", SPACE>>), Str(<<FF, "{", "}">>), Num(1) }

RECURSIVE Structured(_)
Structured(d) ==
    IF d = 0 THEN Leaves
    ELSE LET prev == Structured(d - 1) IN
         prev
         \cup {List(<<x>>) : x \in prev}
         \cup {List(<<x, Str(<<"[", "]">>)>>) : x \in prev}
         \cup {Dict(<<[k |-> <<"a">>, v |-> x]>>) : x \in prev}
         \cup {Str(Dumps(x)) : x \in {y \in prev : y.t \in {"list", "dict"}}}

Inputs == {Str(s) : s \in Texts(MaxLen)} \cup Structured(MaxDepth)

---------------------------------------------------------------------------
(* recursive_json_clean as a state machine *)

Absent(default) == [present |-> FALSE, v |-> default]
Present(x)      == [present |-> TRUE, v |-> x]

\* The response record with no key.
EmptyResponse ==
    [input |-> Absent(None), intermediate_steps |-> Absent(<<>>),
     messages |-> Absent(<<>>), output |-> Absent([attr_content |-> FALSE,
                                                   content |-> None, self |-> None])]

VizIdle ==
    /\ response = EmptyResponse
    /\ show_raw = FALSE
    /\ console = <<>>
    /\ exc = "none"
    /\ vpc = "idle"

Init ==
    /\ VizIdle
    /\ data \in Inputs
    /\ term = Call(data)
    /\ pass = 1
    /\ calls = <<0, 0>>
    /\ loads = <<0, 0>>
    /\ out = None
    /\ out2 = None
    /\ cpc = "cleaning"

\* The next pending invocation runs.
Invoke ==
    /\ cpc = "cleaning"
    /\ HasCall(term)
    /\ term' = RunNext(term)
    /\ calls' = [calls EXCEPT ![pass] = @ + 1]
    /\ loads' = [loads EXCEPT ![pass] = @ + (IF TriesParse(NextArg(term)) THEN 1 ELSE 0)]
    /\ UNCHANGED <<data, pass, out, out2, cpc, vizVars>>

\* The outermost call of the first pass returns; its result is cleaned again.
Return ==
    /\ cpc = "cleaning"
    /\ pass = 1
    /\ ~HasCall(term)
    /\ out' = term
    /\ term' = Call(term)
    /\ pass' = 2
    /\ UNCHANGED <<data, calls, loads, out2, cpc, vizVars>>

\* The outermost call of the second pass returns.
ReturnAgain ==
    /\ cpc = "cleaning"
    /\ pass = 2
    /\ ~HasCall(term)
    /\ out2' = term
    /\ cpc' = "done"
    /\ UNCHANGED <<data, term, pass, calls, loads, out, vizVars>>

Next == Invoke \/ Return \/ ReturnAgain

Spec == Init /\ [][Next]_vars

---------------------------------------------------------------------------
(* The renderer.  What console.print is given is kept as a sequence of     *)
(* items [kind, i, label, id, v, children]: rich's panels, trees and texts *)
(* with the values they show, not their styled characters.                 *)

Item(kind, i, label, id, v, children) ==
    [kind |-> kind, i |-> i, label |-> label, id |-> id, v |-> v,
     children |-> children]
Plain(kind)       == Item(kind, 0, None, None, None, <<>>)
Showing(kind, v)  == Item(kind, 0, None, None, v, <<>>)

\* What a helper did: the items it printed, and the exception that ended
\* it ("none" when it returned).
Returned(items)     == [out |-> items, exc |-> "none"]
Raised(items, name) == [out |-> items, exc |-> name]

\* A Python object that is not data, as str() shows it.
Opaque == Val("object", <<>>, <<>>, 0)

\* The text json.dumps(x, indent=2), kept as the value it is the dump of.
DumpsIndent(x) == Val("dumps", <<>>, <<x>>, 0)

KeyInput == <<"i", "n", "p", "u", "t">>
KeyQuery == <<"q", "u", "e", "r", "y">>
UnknownTool == Str(<<"U", "n", "k", "n", "o", "w", "n", " ", "T", "o", "o", "l">>)

\* bool(x)
Truthy(x) ==
    IF x.t = "str" THEN x.s # <<>>
    ELSE IF x.t \in {"list", "dict"} THEN x.xs # <<>>
    ELSE IF x.t = "int" THEN x.n # 0
    ELSE x.t # "none"

\* dict.get(key): the value, or None
RECURSIVE Get(_, _)
Get(ps, key) ==
    IF ps = <<>> THEN None
    ELSE IF Head(ps).k = key THEN Head(ps).v
    ELSE Get(Tail(ps), key)

\* print_header
print_header == <<Plain("Blank"), Plain("HeaderPanel")>>

\* print_input
print_input(input_data) ==
    LET content ==
            IF input_data.t = "dict"
            THEN IF Truthy(Get(input_data.xs, KeyInput)) THEN Get(input_data.xs, KeyInput)
                 ELSE IF Truthy(Get(input_data.xs, KeyQuery)) THEN Get(input_data.xs, KeyQuery)
                 ELSE DumpsIndent(input_data)
            ELSE input_data
    IN  <<Showing("InputPanel", content)>>

\* _render_json_or_text
Rendered(clean_data) ==
    IF clean_data.t \in {"dict", "list"} THEN Showing("Syntax", clean_data)
    ELSE Showing("Str", clean_data)
render_json_or_text(x) == Rendered(recursive_json_clean(x))

\* needle in hay, for texts
Contains(hay, needle) ==
    \E i \in 0..(Len(hay) - Len(needle)) :
        \A j \in 1..Len(needle) : hay[i + j] = needle[j]

\* text.split('\n')[0]
RECURSIVE FirstLine(_)
FirstLine(s) ==
    IF s = <<>> \/ Head(s) = "\n" THEN <<>> ELSE <<Head(s)>> \o FirstLine(Tail(s))

\* getattr(action, name, default) of a step's action
ActionAttr(step, name, default) ==
    IF name \in step.has THEN step[name] ELSE default

\* The tree of one step (lines 86-101).
StepTree(step, i) ==
    LET tool_name   == ActionAttr(step, "tool", UnknownTool)
        tool_input  == ActionAttr(step, "tool_input", Str(<<>>))
        log_content == ActionAttr(step, "log", Str(<<>>))
        clean_log   == FirstLine(log_content.s)
        log == IF Truthy(log_content) /\ ~Contains(clean_log, tool_name.s)
               THEN <<Showing("Log", Str(clean_log))>> ELSE <<>>
    IN  Item("StepTree", i, tool_name, None, None,
             <<Item("Input", 0, None, None, None, <<render_json_or_text(tool_input)>>)>>
             \o log
             \o <<Item("Observation", 0, None, None, None,
                       <<render_json_or_text(step.observation)>>)>>)

\* The loop of print_intermediate_steps from step i on; unpacking a step
\* that is not a pair raises ValueError.
RECURSIVE StepLoop(_, _, _)
StepLoop(steps, i, printed) ==
    IF i > Len(steps) THEN Returned(printed)
    ELSE IF ~steps[i].pair THEN Raised(printed, "ValueError")
    ELSE StepLoop(steps, i + 1,
                  printed \o <<StepTree(steps[i], i), Plain("Blank")>>)

\* print_intermediate_steps
print_intermediate_steps(intermediate_steps) ==
    IF intermediate_steps = <<>> THEN Returned(<<>>)
    ELSE StepLoop(intermediate_steps, 1, <<Plain("StepsHeading")>>)

SeqCall(call) ==
    [type |-> "call", name |-> call.name, args |-> call.args, id |-> call.id,
     content |-> None]
SeqResult(msg) ==
    [type |-> "result", name |-> msg.name, args |-> None, id |-> msg.tool_call_id,
     content |-> msg.content]

RECURSIVE SeqCalls(_)
SeqCalls(tool_calls) ==
    IF tool_calls = <<>> THEN <<>>
    ELSE <<SeqCall(Head(tool_calls))>> \o SeqCalls(Tail(tool_calls))

\* The first loop of print_message_history (lines 111-128): tool_sequence,
\* or the AttributeError of reading an attribute a message does not have.
RECURSIVE ToolSequence(_, _)
ToolSequence(messages, acc) ==
    IF messages = <<>> THEN [seq |-> acc, exc |-> "none"]
    ELSE LET msg == Head(messages) IN
         IF "tool_calls" \in msg.has /\ msg.tool_calls # <<>>
         THEN ToolSequence(Tail(messages), acc \o SeqCalls(msg.tool_calls))
         ELSE IF "type" \notin msg.has THEN [seq |-> acc, exc |-> "AttributeError"]
         ELSE IF msg.type = "tool"
              THEN IF {"content", "tool_call_id", "name"} \subseteq msg.has
                   THEN ToolSequence(Tail(messages), Append(acc, SeqResult(msg)))
                   ELSE [seq |-> acc, exc |-> "AttributeError"]
         ELSE ToolSequence(Tail(messages), acc)

\* The second loop of print_message_history (lines 135-147).
RECURSIVE SequenceTrees(_)
SequenceTrees(tool_sequence) ==
    IF tool_sequence = <<>> THEN <<>>
    ELSE LET item == Head(tool_sequence) IN
         (IF item.type = "call"
          THEN <<Item("InvokeTree", 0, item.name, item.id, None,
                      <<Item("Args", 0, None, None, None,
                             <<render_json_or_text(item.args)>>)>>)>>
          ELSE <<Item("ResultTree", 0, None, item.id, None,
                      <<Item("Output", 0, None, None, None,
                             <<render_json_or_text(item.content)>>)>>),
                 Plain("Blank")>>)
         \o SequenceTrees(Tail(tool_sequence))

\* print_message_history
print_message_history(messages) ==
    LET built == ToolSequence(messages, <<>>) IN
    IF built.exc # "none" THEN Raised(<<>>, built.exc)
    ELSE IF built.seq = <<>> THEN Returned(<<>>)
    ELSE Returned(<<Plain("MessagesHeading")>> \o SequenceTrees(built.seq))

\* An argument of print_final_answer: whether it has a content attribute,
\* that attribute, and the object itself.
PlainObj(x) == [attr_content |-> FALSE, content |-> None, self |-> x]
MsgObj(msg) ==
    [attr_content |-> "content" \in msg.has, content |-> msg.content, self |-> Opaque]

\* print_final_answer
print_final_answer(output) ==
    LET content == IF output.attr_content THEN output.content ELSE output.self IN
    <<Plain("FinalPanel"),
      IF content.t = "str" THEN Showing("Markdown", content)
      ELSE IF content.t = "dict" THEN Showing("JSON", content)
      ELSE Showing("Text", content),
      Plain("EndPanel")>>

\* key in response
Has(key) == response[key].present

\* Section 1 of visualize_agent_response (lines 173-176).
InputSection ==
    IF Has("input") THEN Returned(print_input(response.input.v))
    ELSE IF Has("messages") /\ Len(response.messages.v) > 0
         THEN IF "content" \in response.messages.v[1].has
              THEN Returned(print_input(response.messages.v[1].content))
              ELSE Raised(<<>>, "AttributeError")
    ELSE Returned(<<>>)

\* Faulty variant: the messages key is looked at first.
HistoryBranch_MessagesFirst ==
    IF Has("messages") THEN "messages"
    ELSE IF Has("intermediate_steps") THEN "intermediate_steps"
    ELSE "none"

\* Which history section 2 prints (lines 179-184).
HistoryBranch ==
    IF Has("intermediate_steps") THEN "intermediate_steps"
    ELSE IF Has("messages") THEN "messages"
    ELSE "none"

HistorySection ==
    IF HistoryBranch = "intermediate_steps"
    THEN print_intermediate_steps(response.intermediate_steps.v)
    ELSE IF HistoryBranch = "messages"
    THEN print_message_history(response.messages.v)
    ELSE Returned(<<Plain("NoHistory")>>)

\* Faulty variant: without an output key the final answer is printed all the same.
OutputSection_AlwaysPrints ==
    IF Has("messages") /\ Len(response.messages.v) > 0
    THEN Returned(print_final_answer(MsgObj(response.messages.v[Len(response.messages.v)])))
    ELSE Returned(print_final_answer(response.output.v))

\* Section 3 (lines 187-190).
OutputSection ==
    IF Has("output") THEN Returned(print_final_answer(response.output.v))
    ELSE IF Has("messages") /\ Len(response.messages.v) > 0
    THEN Returned(print_final_answer(MsgObj(response.messages.v[Len(response.messages.v)])))
    ELSE Returned(<<>>)

\* Section 4 (lines 193-196).
DebugSection ==
    IF show_raw THEN Returned(<<Plain("RawHeading"), Plain("Pretty")>>)
    ELSE Returned(<<>>)

---------------------------------------------------------------------------
(* Inputs of visualize_agent_response *)

MaxMsgs == 2       \* length of the messages list

TextA  == Str(<<"a">>)
ToolT  == Str(<<"T">>)
\* A tool result whose text is JSON holding JSON: ["[]"]
Nested == Str(<<"[", QUOTE, "[", "]", QUOTE, "]">>)

\* The values of the input key: a text, a mapping with "input", a mapping
\* with neither "input" nor "query".
InputValues ==
    { TextA,
      Dict(<<[k |-> KeyInput, v |-> TextA]>>),
      Dict(<<[k |-> <<"a">>, v |-> Num(1)]>>) }

Step(pair, has, log, tool_input, observation) ==
    [pair |-> pair, has |-> has, tool |-> ToolT, tool_input |-> tool_input,
     log |-> log, observation |-> observation]

\* (action, observation) with every attribute; the log's first line names the tool
StepFull   == Step(TRUE, {"tool", "tool_input", "log"}, Str(<<"T", "\n", "a">>),
                   Nested, TextA)
\* the log's first line does not name the tool
StepLogged == Step(TRUE, {"tool", "tool_input", "log"}, Str(<<"a", "\n", "T">>),
                   TextA, Nested)
\* an action with none of the attributes
StepBare   == Step(TRUE, {}, Str(<<>>), Str(<<>>), None)
\* a step that is not a pair
StepNoPair == Step(FALSE, {}, Str(<<>>), Str(<<>>), None)

StepLists ==
    { <<>>, <<StepFull>>, <<StepBare, StepLogged>>, <<StepNoPair>>,
      <<StepFull, StepNoPair>> }

ToolCall(name, args, id) == [name |-> name, args |-> args, id |-> id]
CallFull == ToolCall(ToolT, Dict(<<[k |-> <<"a">>, v |-> Nested]>>), Str(<<"1">>))
\* a call mapping without name, args or id: get() gives None
CallBare == ToolCall(None, None, None)

Msg(has, tool_calls, type, content) ==
    [has |-> has, tool_calls |-> tool_calls, type |-> type, content |-> content,
     tool_call_id |-> Str(<<"1">>), name |-> ToolT]

MessageShapes ==
    { \* an AI message with one call, with two calls, with none
      Msg({"tool_calls", "type", "content"}, <<CallFull>>, "ai", Str(<<>>)),
      Msg({"tool_calls", "type", "content"}, <<CallBare, CallFull>>, "ai", Str(<<>>)),
      Msg({"tool_calls", "type", "content"}, <<>>, "ai", TextA),
      \* a tool result
      Msg({"type", "content", "tool_call_id", "name"}, <<>>, "tool", Nested),
      \* a tool result without content, tool_call_id and name
      Msg({"type"}, <<>>, "tool", None),
      \* a message without tool_calls and type
      Msg({"content"}, <<>>, "", TextA),
      \* a message of type tool that carries a call
      Msg({"tool_calls", "type", "content", "tool_call_id", "name"},
          <<CallFull>>, "tool", TextA) }

MsgLists == UNION {[1..n -> MessageShapes] : n \in 0..MaxMsgs}

\* The values of the output key: a text, a mapping, a scalar, an object
\* with a content attribute.
OutputValues ==
    { PlainObj(Str(<<"o">>)),
      PlainObj(Dict(<<>>)),
      PlainObj(Num(1)),
      [attr_content |-> TRUE, content |-> Str(<<"o">>), self |-> Opaque] }

Optional(values, default) == {Absent(default)} \cup {Present(x) : x \in values}

Responses ==
    [input : Optional(InputValues, None),
     intermediate_steps : Optional(StepLists, <<>>),
     messages : Optional(MsgLists, <<>>),
     output : Optional(OutputValues, EmptyResponse.output.v)]

---------------------------------------------------------------------------
(* visualize_agent_response as a state machine: one action per section *)

CleanIdle ==
    /\ data = None
    /\ term = None
    /\ pass = 1
    /\ calls = <<0, 0>>
    /\ loads = <<0, 0>>
    /\ out = None
    /\ out2 = None
    /\ cpc = "idle"

VizInit ==
    /\ CleanIdle
    /\ response \in Responses
    /\ show_raw \in BOOLEAN
    /\ console = <<>>
    /\ exc = "none"
    /\ vpc = "header"

\* A section has run: what it printed is on the console; an exception ends
\* the call where it is, a return moves on to the next section.
Ran(r, nextpc) ==
    /\ console' = console \o r.out
    /\ exc' = r.exc
    /\ vpc' = IF r.exc = "none" THEN nextpc ELSE vpc
    /\ UNCHANGED <<response, show_raw, cleanVars>>

VizHeader  == vpc = "header"  /\ exc = "none" /\ Ran(Returned(print_header), "input")
VizInput   == vpc = "input"   /\ exc = "none" /\ Ran(InputSection, "history")
VizHistory == vpc = "history" /\ exc = "none" /\ Ran(HistorySection, "output")
VizOutput  == vpc = "output"  /\ exc = "none" /\ Ran(OutputSection, "debug")
VizDebug   == vpc = "debug"   /\ exc = "none" /\ Ran(DebugSection, "done")

VizNext == VizHeader \/ VizInput \/ VizHistory \/ VizOutput \/ VizDebug

VizSpec == VizInit /\ [][VizNext]_vars

---------------------------------------------------------------------------
(* Properties of recursive_json_clean *)

\* The text with its surrounding whitespace trimmed, stated over positions.
Trimmed(s) ==
    LET keep == {i \in 1..Len(s) : s[i] \notin PyWs} IN
    IF keep = {} THEN <<>>
    ELSE SubSeq(s, CHOOSE i \in keep : \A j \in keep : i <= j,
                   CHOOSE i \in keep : \A j \in keep : i >= j)

\* After trimming, the text starts and ends with matching brackets.
BracketDelimited(s) ==
    LET tr == Trimmed(s) IN
    /\ tr # <<>>
    /\ \/ tr[1] = "{" /\ tr[Len(tr)] = "}"
       \/ tr[1] = "[" /\ tr[Len(tr)] = "]"

IsContainer(x) == x.t \in {"list", "dict"}

\* The value of position i of a container: a list's item, a dict's value.
Child(x, i) == IF x.t = "dict" THEN x.xs[i].v ELSE x.xs[i]

\* The first pass over data has returned (its result is out).
FirstPassDone == pass = 2

\* A string a pass would replace: bracket-delimited and parseable.
Parseable(x) == x.t = "str" /\ BracketDelimited(x.s) /\ JsonLoads(x.s).ok

\* A string the claims call malformed: bracket-delimited and not parseable.
Malformed(x) == x.t = "str" /\ BracketDelimited(x.s) /\ ~JsonLoads(x.s).ok

\* No string at any depth of x is one a pass would replace.
RECURSIVE NoParseable(_)
NoParseable(x) ==
    IF IsContainer(x) THEN \A i \in 1..Len(x.xs) : NoParseable(Child(x, i))
    ELSE ~Parseable(x)

\* y is x with every malformed string of x, at any depth and inside any
\* parsed text, in the place it had in x.
RECURSIVE InPlace(_, _)
InPlace(x, y) ==
    IF Malformed(x) THEN y = x
    ELSE IF Parseable(x) THEN InPlace(JsonLoads(x.s).val, y)
    ELSE IF IsContainer(x)
         THEN /\ y.t = x.t
              /\ Len(y.xs) = Len(x.xs)
              /\ \A i \in 1..Len(x.xs) :
                    /\ x.t = "dict" => y.xs[i].k = x.xs[i].k
                    /\ InPlace(Child(x, i), Child(y, i))
    ELSE TRUE

\* Work left in a value: one unit per value and per character of text.
RECURSIVE Weight(_), SumWeight(_, _)
Weight(x) ==
    IF x.t = "str" THEN 1 + Len(x.s)
    ELSE IF IsContainer(x) THEN 1 + SumWeight(x, Len(x.xs))
    ELSE 1
SumWeight(x, n) == IF n = 0 THEN 0 ELSE Weight(Child(x, n)) + SumWeight(x, n - 1)

\* Work left in a term: the weight of the arguments of its pending calls.
RECURSIVE Rank(_), SumRank(_, _)
Rank(tm) ==
    IF tm.t = "call" THEN Weight(Arg(tm))
    ELSE IF IsContainer(tm) THEN SumRank(tm, Len(tm.xs))
    ELSE 0
SumRank(tm, n) == IF n = 0 THEN 0 ELSE Rank(Child(tm, n)) + SumRank(tm, n - 1)

\* C1 as stated, which the code does not satisfy: every string that is valid
\* JSON is replaced by the structure it parses to, cleaned in turn.
C1_AnyValidJsonIsParsed ==
    (FirstPassDone /\ data.t = "str" /\ JsonLoads(data.s).ok)
        => /\ out = recursive_json_clean(JsonLoads(data.s).val)
           /\ out # data

\* C1 (amended): a string that is a valid JSON object or array text is
\* replaced by the structure it parses to, itself cleaned, and never comes
\* back as a string.
C1_ObjectOrArrayIsParsed ==
    (FirstPassDone /\ data.t = "str" /\ JsonLoads(data.s).ok
                   /\ IsContainer(JsonLoads(data.s).val))
        => /\ out = recursive_json_clean(JsonLoads(data.s).val)
           /\ IsContainer(out)

\* An array text holding a string that is itself JSON has been cleaned.
C1_Witness ==
    /\ FirstPassDone
    /\ data.t = "str"
    /\ JsonLoads(data.s).ok
    /\ JsonLoads(data.s).val.t = "list"
    /\ out.t = "list"
    /\ out # JsonLoads(data.s).val

\* C2: a second pass changes nothing, and the result of the first holds no
\* string, at any depth, that a pass would parse.
C2_Idempotent ==
    cpc = "done" => (out2 = out /\ NoParseable(out))

\* Both passes have run over a mapping in which the first pass parsed a string.
C2_Witness ==
    /\ cpc = "done"
    /\ data.t = "dict"
    /\ out # data
    /\ loads[1] > 0
    /\ out2 = out

\* C3: a string that is not bracket-delimited after trimming comes back as
\* it was, whitespace included, and json.loads is never called.
C3_NonJsonUnchanged ==
    (FirstPassDone /\ data.t = "str" /\ ~BracketDelimited(data.s))
        => (out = data /\ loads[1] = 0)

\* A valid JSON string literal with a leading space came back unchanged.
C3_Witness ==
    /\ FirstPassDone
    /\ data.t = "str"
    /\ ~BracketDelimited(data.s)
    /\ JsonLoads(data.s).ok
    /\ Trimmed(data.s) # data.s
    /\ out = data

C10_Terminates ==
    calls[pass] + Rank(term) <= Weight(IF pass = 1 THEN data ELSE out)

\* A pass that parsed a text inside a parsed text has returned.
C10_Witness ==
    /\ cpc = "done"
    /\ data.t = "str"
    /\ loads[1] >= 2
    /\ calls[1] >= 4

---------------------------------------------------------------------------
(* Properties of visualize_agent_response *)

StepKinds    == {"StepsHeading", "StepTree"}
MessageKinds == {"MessagesHeading", "InvokeTree", "ResultTree"}
FinalKinds   == {"FinalPanel", "Markdown", "JSON", "Text", "EndPanel"}

Printed(kinds) == \E i \in 1..Len(console) : console[i].kind \in kinds
Count(kind)    == Cardinality({i \in 1..Len(console) : console[i].kind = kind})

IsTree(item)  == item.kind \in {"InvokeTree", "ResultTree"}
IsFinal(item) == item.kind \in FinalKinds

\* The call has ended, by returning or by raising.
CallEnded == vpc = "done" \/ exc # "none"

\* Section 2 has run, to its end or to an exception.
HistoryRan == vpc \in {"output", "debug", "done"} \/ (vpc = "history" /\ exc # "none")

\* A tree as the claims count it: its kind and the call id it shows.
Tree(kind, id) == [kind |-> kind, id |-> id]

RECURSIVE TreesPrinted(_)
TreesPrinted(items) ==
    IF items = <<>> THEN <<>>
    ELSE (IF IsTree(Head(items)) THEN <<Tree(Head(items).kind, Head(items).id)>>
          ELSE <<>>) \o TreesPrinted(Tail(items))

RECURSIVE InvokesOf(_)
InvokesOf(tool_calls) ==
    IF tool_calls = <<>> THEN <<>>
    ELSE <<Tree("InvokeTree", Head(tool_calls).id)>> \o InvokesOf(Tail(tool_calls))

\* One Invoke per tool call and one Result per message of type tool, in the
\* order of the list.
RECURSIVE TreesExpected(_)
TreesExpected(messages) ==
    IF messages = <<>> THEN <<>>
    ELSE LET msg == Head(messages) IN
         (IF "tool_calls" \in msg.has THEN InvokesOf(msg.tool_calls) ELSE <<>>)
         \o (IF "type" \in msg.has /\ msg.type = "tool"
             THEN <<Tree("ResultTree",
                         IF "tool_call_id" \in msg.has THEN msg.tool_call_id ELSE None)>>
             ELSE <<>>)
         \o TreesExpected(Tail(messages))

\* C5 as stated, which the code does not satisfy: no call ends in an
\* exception, whatever is missing from the steps and the messages.
C5_NeverRaises == exc = "none"

\* C6: at most one history is printed; with intermediate_steps present the
\* message history never is; the message history needs intermediate_steps
\* absent and messages present; the no-history line needs both absent.
C6_OneHistory ==
    /\ ~(Printed(StepKinds) /\ Printed(MessageKinds))
    /\ Has("intermediate_steps") => ~Printed(MessageKinds)
    /\ Printed(MessageKinds) => (~Has("intermediate_steps") /\ Has("messages"))
    /\ Printed({"NoHistory"}) => (~Has("intermediate_steps") /\ ~Has("messages"))

\* A call has returned whose record has an empty intermediate_steps and
\* messages with tool calls: neither history was printed.
C6_Witness ==
    /\ vpc = "done"
    /\ Has("intermediate_steps")
    /\ response.intermediate_steps.v = <<>>
    /\ Has("messages")
    /\ TreesExpected(response.messages.v) # <<>>
    /\ ~Printed(MessageKinds \cup StepKinds \cup {"NoHistory"})

\* C7 as stated, which the code does not satisfy: once print_message_history
\* has run, the trees on the console are one Invoke per call and one Result
\* per tool result, in the list's order, and without any there is no heading.
C7_TreePerCallAndResult ==
    (HistoryRan /\ ~Has("intermediate_steps") /\ Has("messages"))
        => /\ TreesPrinted(console) = TreesExpected(response.messages.v)
           /\ TreesExpected(response.messages.v) = <<>>
                  => ~Printed({"MessagesHeading"})

OnlyInput ==
    /\ Has("input")
    /\ ~Has("intermediate_steps")
    /\ ~Has("messages")
    /\ ~Has("output")

\* C8: for a record with the input key alone the call never raises and
\* prints one header and one input panel, and no history heading, no Step,
\* Invoke or Result tree and nothing of the final answer.
C8_OnlyInput ==
    OnlyInput
        => /\ exc = "none"
           /\ ~Printed(StepKinds \cup MessageKinds \cup FinalKinds)
           /\ vpc # "header" => Count("HeaderPanel") = 1
           /\ vpc \notin {"header", "input"} => Count("InputPanel") = 1

\* A call on a record with the input key alone has returned.
C8_Witness ==
    /\ OnlyInput
    /\ vpc = "done"
    /\ show_raw
    /\ Count("InputPanel") = 1
    /\ Printed({"NoHistory"})

\* C9 as stated, which the code does not satisfy: when the call has ended,
\* the final answer on the console is that of the output key if the key is
\* present, else that of the last message if there is one, else nothing;
\* and it is there once.
C9_FinalAnswerFromOutput ==
    CallEnded
        => SelectSeq(console, IsFinal) =
              IF Has("output") THEN print_final_answer(response.output.v)
              ELSE IF Has("messages") /\ response.messages.v # <<>>
              THEN print_final_answer(MsgObj(response.messages.v[Len(response.messages.v)]))
              ELSE <<>>

===========================================================================
